---- MODULE Spec2Model ----
(***************************************************************************)
(* Model of salsa's InputStorage (src/src/input.rs): a map from query key  *)
(* to StampedValue guarded by one parking_lot RwLock, written by           *)
(* set / set_constant (set_common) and set_unchecked, read by read,        *)
(* try_fetch, maybe_changed_since and is_constant.  Several storages share *)
(* one runtime, whose revision counter is the variable `revision`.         *)
(***************************************************************************)
EXTENDS Integers, FiniteSets, Sequences, TLC

\* ------------------------------------------------------------------ bounds
MaxRev == 2
MaxVal == 1

\* ------------------------------------------------------- program constants
ZERO == 0

Threads == {"t1", "t2"}
Storages == {"s1", "s2"}
Keys == {"a", "b"}
Values == 0..MaxVal
Revisions == ZERO..MaxRev
NoThread == "none"

\* <Q::Value>::default(); the tests use usize, whose default is 0
DefaultValue == 0

VARIABLES
    map,            \* map[s]: the FxHashMap of storage s, a function on the keys present
    readers,        \* readers[s]: threads holding shared access to the lock of s
    upgradable,     \* upgradable[s]: the thread holding upgradable access, or NoThread
    revision,       \* the runtime's revision counter
    pc,             \* pc[t]: where thread t is in the operation it runs
    op,             \* op[t]: the operation thread t runs and its arguments
    next_revision,  \* next_revision[t]: the local of set_common
    ret,            \* ret[t]: what the last operation of t returned
    reported,       \* reported[t]: report_query_read calls made by the operation of t
    branch,         \* branch[t]: the branch of set_common the call of t took
    pure,           \* pure[t]: ret[t] is the result of a query of t and the map it read
                    \* has not been written since (history, kept by SpecPure only)
    stored          \* stored[s][k]: the entries key k of storage s has held, each as
                    \* one write left it (history, kept by SpecTorn only)

vars == <<map, readers, upgradable, revision, pc, op, next_revision, ret, reported, branch, pure, stored>>

\* ------------------------------------------------------ ChangedAt, values
Revision(r) == [tag |-> "Revision", rev |-> r]
Constant(r) == [tag |-> "Constant", rev |-> r]

StampedValue(v, c) == [value |-> v, changed_at |-> c]

ChangedAt_is_constant(c) == c.tag = "Constant"

changed_since(c, r) ==
    CASE c.tag = "Constant" -> c.rev > r
      [] c.tag = "Revision" -> c.rev > r

\* ---------------------------------------------------------------- runtime
current_revision == revision

\* -------------------------------------------------------------- the calls
SetKinds == {"set", "set_constant"}

Op(kind, s, k, v, r) == [kind |-> kind, storage |-> s, key |-> k, value |-> v, revision |-> r]
NoOp == Op("none", "s1", "a", 0, 0)

Ret(tag, v, c, b) == [tag |-> tag, value |-> v, changed_at |-> c, flag |-> b]
NoRet == Ret("none", 0, Revision(ZERO), FALSE)
Unit == Ret("unit", 0, Revision(ZERO), FALSE)
Panic == Ret("panic", 0, Revision(ZERO), FALSE)

\* the FxHashMap: get, contains, insert
EmptyMap == [k \in {} |-> StampedValue(DefaultValue, Revision(ZERO))]
Contains(m, k) == k \in DOMAIN m
Insert(m, k, e) == [x \in (DOMAIN m) \cup {k} |-> IF x = k THEN e ELSE m[x]]

\* IsConstant(bool) of set / set_constant
IsConstant(kind) == kind = "set_constant"

Init ==
    /\ map = [s \in Storages |-> EmptyMap]
    /\ readers = [s \in Storages |-> {}]
    /\ upgradable = [s \in Storages |-> NoThread]
    /\ revision = ZERO
    /\ pc = [t \in Threads |-> "idle"]
    /\ op = [t \in Threads |-> NoOp]
    /\ next_revision = [t \in Threads |-> ZERO]
    /\ ret = [t \in Threads |-> NoRet]
    /\ reported = [t \in Threads |-> <<>>]
    /\ branch = [t \in Threads |-> "none"]
    /\ pure = [t \in Threads |-> FALSE]
    /\ stored = [s \in Storages |-> [k \in Keys |-> {}]]

\* --------------------------------------------------------- the lock modes
\* parking_lot::RwLock: shared access excludes exclusive access; upgradable
\* access excludes upgradable and exclusive access but admits shared access;
\* exclusive access excludes everything.  Exclusive sections of this file
\* contain no blocking call, so each is one step and no state shows an
\* exclusive holder.
\* a plausible slip: an upgradable holder keeps shared access out
CanRead_Mut(s) == upgradable[s] = NoThread

CanRead(s) == TRUE
\* a plausible slip: set_common takes shared instead of upgradable access
CanUpgradableRead_Mut(s) == TRUE

CanUpgradableRead(s) == upgradable[s] = NoThread
\* a plausible slip: the upgrade does not wait for the shared holders to leave
CanUpgrade_Mut(s, t) == upgradable[s] = t

CanUpgrade(s, t) == upgradable[s] = t /\ readers[s] = {}
\* a plausible slip: exclusive access granted beside an upgradable holder
CanWrite_Mut(s) == readers[s] = {}

CanWrite(s) == upgradable[s] = NoThread /\ readers[s] = {}

\* ------------------------------------------------------------- the calls
\* set and set_constant mint at most one revision each: a call starts only
\* while the counter can still take every revision the calls in flight mint.
Minting == {u \in Threads : pc[u] \in {"set_common", "increment"}}
CanMint == revision + Cardinality(Minting) < MaxRev

Begin(t, o, entry) ==
    /\ pc[t] \in {"idle", "done"}
    /\ pc' = [pc EXCEPT ![t] = entry]
    /\ op' = [op EXCEPT ![t] = o]
    /\ ret' = [ret EXCEPT ![t] = NoRet]
    /\ reported' = [reported EXCEPT ![t] = <<>>]
    /\ branch' = [branch EXCEPT ![t] = "none"]
    /\ UNCHANGED <<map, readers, upgradable, revision, next_revision>>

read(t, s, k) == Begin(t, Op("read", s, k, 0, 0), "map_read")

try_fetch(t, s, k) == Begin(t, Op("try_fetch", s, k, 0, 0), "map_read")

maybe_changed_since(t, s, r, k) == Begin(t, Op("maybe_changed_since", s, k, 0, r), "map_read")

is_constant(t, s, k) == Begin(t, Op("is_constant", s, k, 0, 0), "map_read")

set(t, s, k, v) == CanMint /\ Begin(t, Op("set", s, k, v, 0), "set_common")

set_constant(t, s, k, v) == CanMint /\ Begin(t, Op("set_constant", s, k, v, 0), "set_common")

set_unchecked(t, s, k, v) == Begin(t, Op("set_unchecked", s, k, v, 0), "map_write")

\* the call returns r (or unwinds, r = Panic); its locals go
Return(t, r) ==
    /\ pc' = [pc EXCEPT ![t] = "done"]
    /\ ret' = [ret EXCEPT ![t] = r]
    /\ next_revision' = [next_revision EXCEPT ![t] = ZERO]
    /\ op' = op

Continue(t, label) ==
    /\ pc' = [pc EXCEPT ![t] = label]
    /\ UNCHANGED <<ret, op, next_revision>>

\* ------------------------------------------------------------- the reads
\* self.map.read()
map_read(t) ==
    /\ pc[t] = "map_read"
    /\ CanRead(op[t].storage)
    /\ readers' = [readers EXCEPT ![op[t].storage] = @ \cup {t}]
    /\ Continue(t, "get")
    /\ UNCHANGED <<map, upgradable, revision, reported, branch>>

\* a plausible slip: the default is stamped with the current revision
ReadValue_Mut(m, k) ==
    IF Contains(m, k) THEN m[k] ELSE StampedValue(DefaultValue, Revision(current_revision))

\* what read returns for key k of the map m
ReadValue(m, k) ==
    IF Contains(m, k) THEN m[k] ELSE StampedValue(DefaultValue, Revision(ZERO))

read_get(t) ==
    /\ pc[t] = "get"
    /\ op[t].kind = "read"
    /\ LET sv == ReadValue(map[op[t].storage], op[t].key)
       IN Return(t, Ret("stamped", sv.value, sv.changed_at, FALSE))
    /\ readers' = [readers EXCEPT ![op[t].storage] = @ \ {t}]
    /\ UNCHANGED <<map, upgradable, revision, reported, branch>>

\* a plausible slip: the stamp is reported without its constancy
Fetch_Mut(m, k) ==
    [value |-> ReadValue(m, k).value,
     changed_at |-> Revision(ReadValue(m, k).changed_at.rev)]

\* let StampedValue { value, changed_at } = self.read(db, key, &descriptor)?
Fetch(m, k) ==
    [value |-> ReadValue(m, k).value, changed_at |-> ReadValue(m, k).changed_at]

\* read, then report_query_read(descriptor, changed_at), then Ok(value)
try_fetch_get(t) ==
    /\ pc[t] = "get"
    /\ op[t].kind = "try_fetch"
    /\ LET sv == Fetch(map[op[t].storage], op[t].key)
       IN /\ reported' = [reported EXCEPT ![t] = Append(@, sv.changed_at)]
          /\ Return(t, Ret("value", sv.value, Revision(ZERO), FALSE))
    /\ readers' = [readers EXCEPT ![op[t].storage] = @ \ {t}]
    /\ UNCHANGED <<map, upgradable, revision, branch>>

\* ------------------------------------------- the derived query of the tests
\* constants_add(('a', 'b')): db.constants_input(key1) + db.constants_input(key2),
\* two try_fetch calls of one computation; op[t].key is the key to fetch
\* next and op[t].value the sum so far
constants_add(t, s) == Begin(t, Op("constants_add", s, "a", 0, 0), "add_read")

\* self.map.read() of the fetch
constants_add_read(t) ==
    /\ pc[t] = "add_read"
    /\ CanRead(op[t].storage)
    /\ readers' = [readers EXCEPT ![op[t].storage] = @ \cup {t}]
    /\ Continue(t, "add_get")
    /\ UNCHANGED <<map, upgradable, revision, reported, branch>>

\* the rest of the fetch, and the sum after the second one
constants_add_get(t) ==
    /\ pc[t] = "add_get"
    /\ LET sv == Fetch(map[op[t].storage], op[t].key)
       IN /\ reported' = [reported EXCEPT ![t] = Append(@, sv.changed_at)]
          /\ IF op[t].key = "a"
                THEN /\ pc' = [pc EXCEPT ![t] = "add_read"]
                     /\ op' = [op EXCEPT ![t].key = "b", ![t].value = sv.value]
                     /\ UNCHANGED <<ret, next_revision>>
                ELSE /\ pc' = [pc EXCEPT ![t] = "done"]
                     /\ ret' = [ret EXCEPT ![t] =
                                  Ret("value", op[t].value + sv.value, Revision(ZERO), FALSE)]
                     /\ UNCHANGED <<op, next_revision>>
    /\ readers' = [readers EXCEPT ![op[t].storage] = @ \ {t}]
    /\ UNCHANGED <<map, upgradable, revision, branch>>

\* a plausible slip: an absent key is taken to have changed just now
StoredChangedAt_Mut(m, k) ==
    IF Contains(m, k) THEN m[k].changed_at ELSE Revision(current_revision)

\* map_read.get(key).map(|v| v.changed_at).unwrap_or(Revision(ZERO))
StoredChangedAt(m, k) ==
    IF Contains(m, k) THEN m[k].changed_at ELSE Revision(ZERO)

maybe_changed_since_get(t) ==
    /\ pc[t] = "get"
    /\ op[t].kind = "maybe_changed_since"
    /\ LET changed_at == StoredChangedAt(map[op[t].storage], op[t].key)
       IN Return(t, Ret("bool", 0, Revision(ZERO), changed_since(changed_at, op[t].revision)))
    /\ readers' = [readers EXCEPT ![op[t].storage] = @ \ {t}]
    /\ UNCHANGED <<map, upgradable, revision, reported, branch>>

is_constant_get(t) ==
    /\ pc[t] = "get"
    /\ op[t].kind = "is_constant"
    /\ LET m == map[op[t].storage]
           b == IF Contains(m, op[t].key) THEN ChangedAt_is_constant(m[op[t].key].changed_at)
                                          ELSE FALSE
       IN Return(t, Ret("bool", 0, Revision(ZERO), b))
    /\ readers' = [readers EXCEPT ![op[t].storage] = @ \ {t}]
    /\ UNCHANGED <<map, upgradable, revision, reported, branch>>

\* ------------------------------------------------------------ set_common
\* the value did not change: what is left to do
SameValue(m, k, v) == Contains(m, k) /\ m[k].value = v
\* a plausible slip: the promotion does not look at the old stamp
Promotes_Mut(m, k, v, kind) == SameValue(m, k, v) /\ IsConstant(kind)

Promotes(m, k, v, kind) ==
    SameValue(m, k, v) /\ IsConstant(kind) /\ ~ChangedAt_is_constant(m[k].changed_at)

\* a plausible slip: the early return of the unchanged value keeps the guard
set_common_upgradable_read_Mut(t) ==
    LET s == op[t].storage
        m == map[s]
    IN /\ pc[t] = "set_common"
       /\ CanUpgradableRead(s)
       /\ upgradable' = [upgradable EXCEPT ![s] = t]
       /\ IF Promotes(m, op[t].key, op[t].value, op[t].kind)
             THEN /\ branch' = [branch EXCEPT ![t] = "promote"]
                  /\ Continue(t, "promote")
          ELSE IF SameValue(m, op[t].key, op[t].value)
             THEN /\ branch' = [branch EXCEPT ![t] = "unchanged"]
                  /\ Return(t, Unit)
          ELSE /\ branch' = [branch EXCEPT ![t] = "change"]
               /\ Continue(t, "increment")
       /\ UNCHANGED <<map, readers, revision, reported>>

\* self.map.upgradable_read() and the comparison with the old value
set_common_upgradable_read(t) ==
    LET s == op[t].storage
        m == map[s]
    IN /\ pc[t] = "set_common"
       /\ CanUpgradableRead(s)
       /\ IF Promotes(m, op[t].key, op[t].value, op[t].kind)
             THEN /\ upgradable' = [upgradable EXCEPT ![s] = t]
                  /\ branch' = [branch EXCEPT ![t] = "promote"]
                  /\ Continue(t, "promote")
          ELSE IF SameValue(m, op[t].key, op[t].value)
             THEN /\ upgradable' = upgradable
                  /\ branch' = [branch EXCEPT ![t] = "unchanged"]
                  /\ Return(t, Unit)
          ELSE /\ upgradable' = [upgradable EXCEPT ![s] = t]
               /\ branch' = [branch EXCEPT ![t] = "change"]
               /\ Continue(t, "increment")
       /\ UNCHANGED <<map, readers, revision, reported>>

\* a plausible slip: the promotion mints a revision as a value change does
set_common_promote_Mut(t) ==
    LET s == op[t].storage
        k == op[t].key
    IN /\ pc[t] = "promote"
       /\ CanUpgrade(s, t)
       /\ revision' = revision + 1
       /\ map' = [map EXCEPT ![s] = [@ EXCEPT ![k] =
                     StampedValue(@.value, Constant(revision + 1))]]
       /\ upgradable' = [upgradable EXCEPT ![s] = NoThread]
       /\ Return(t, Unit)
       /\ UNCHANGED <<readers, reported, branch>>

\* upgrade, old_value.changed_at = Constant(current_revision()), return
set_common_promote(t) ==
    LET s == op[t].storage
        k == op[t].key
    IN /\ pc[t] = "promote"
       /\ CanUpgrade(s, t)
       /\ map' = [map EXCEPT ![s] = [@ EXCEPT ![k] =
                     StampedValue(@.value, Constant(current_revision))]]
       /\ upgradable' = [upgradable EXCEPT ![s] = NoThread]
       /\ Return(t, Unit)
       /\ UNCHANGED <<readers, revision, reported, branch>>

\* a plausible slip: the next revision is handed out and the counter stays
increment_revision_Mut(t) ==
    /\ pc[t] = "increment"
    /\ revision' = revision
    /\ next_revision' = [next_revision EXCEPT ![t] = revision + 1]
    /\ pc' = [pc EXCEPT ![t] = "upgrade"]
    /\ UNCHANGED <<map, readers, upgradable, op, ret, reported, branch>>

\* db.salsa_runtime().increment_revision()
increment_revision(t) ==
    /\ pc[t] = "increment"
    /\ revision' = revision + 1
    /\ next_revision' = [next_revision EXCEPT ![t] = revision + 1]
    /\ pc' = [pc EXCEPT ![t] = "upgrade"]
    /\ UNCHANGED <<map, readers, upgradable, op, ret, reported, branch>>

\* a plausible slip: the constant flag is dropped
NewChangedAt_Mut(kind, r) == Revision(r)

\* the stamp set_common builds for the new value
NewChangedAt(kind, r) == IF IsConstant(kind) THEN Constant(r) ELSE Revision(r)

\* a plausible slip: the assert! is missing
AssertNotConstant_Mut(m, k) == TRUE

\* the assert! of the Occupied arm
AssertNotConstant(m, k) == ~(Contains(m, k) /\ ChangedAt_is_constant(m[k].changed_at))

\* a plausible slip: the stamp is the revision current at the write
stamped_value_Mut(t) ==
    StampedValue(op[t].value, NewChangedAt(op[t].kind, current_revision))

\* StampedValue { value, changed_at } of set_common
stamped_value(t) ==
    StampedValue(op[t].value, NewChangedAt(op[t].kind, next_revision[t]))

\* a plausible slip: the entry is overwritten before the assert! is evaluated
set_common_insert_Mut(t) ==
    LET s == op[t].storage
        k == op[t].key
    IN /\ pc[t] = "upgrade"
       /\ CanUpgrade(s, t)
       /\ map' = [map EXCEPT ![s] = Insert(@, k, stamped_value(t))]
       /\ IF AssertNotConstant(map[s], k)
             THEN Return(t, Unit)
             ELSE Return(t, Panic)
       /\ upgradable' = [upgradable EXCEPT ![s] = NoThread]
       /\ UNCHANGED <<readers, revision, reported, branch>>

\* upgrade, build the stamped value, map.entry(key): assert, insert
set_common_insert(t) ==
    LET s == op[t].storage
        k == op[t].key
    IN /\ pc[t] = "upgrade"
       /\ CanUpgrade(s, t)
       /\ IF AssertNotConstant(map[s], k)
             THEN /\ map' = [map EXCEPT ![s] = Insert(@, k, stamped_value(t))]
                  /\ Return(t, Unit)
             ELSE /\ map' = map
                  /\ Return(t, Panic)
       /\ upgradable' = [upgradable EXCEPT ![s] = NoThread]
       /\ UNCHANGED <<readers, revision, reported, branch>>

\* --------------------------------------------------------- set_unchecked
\* a plausible slip: set_unchecked mints a revision as set does
set_unchecked_insert_Mut(t) ==
    LET s == op[t].storage
    IN /\ pc[t] = "map_write"
       /\ CanWrite(s)
       /\ revision' = revision + 1
       /\ map' = [map EXCEPT ![s] =
                     Insert(@, op[t].key, StampedValue(op[t].value, Revision(revision + 1)))]
       /\ Return(t, Unit)
       /\ UNCHANGED <<readers, upgradable, reported, branch>>

\* self.map.write(), Revision(current_revision()), insert
set_unchecked_insert(t) ==
    LET s == op[t].storage
    IN /\ pc[t] = "map_write"
       /\ CanWrite(s)
       /\ map' = [map EXCEPT ![s] =
                     Insert(@, op[t].key, StampedValue(op[t].value, Revision(current_revision)))]
       /\ Return(t, Unit)
       /\ UNCHANGED <<readers, upgradable, revision, reported, branch>>

\* ------------------------------------------------------ the specification
Step(t, S, K) ==
    \/ \E s \in S, k \in K : read(t, s, k)
    \/ \E s \in S, k \in K : try_fetch(t, s, k)
    \/ \E s \in S, k \in K, r \in Revisions : maybe_changed_since(t, s, r, k)
    \/ \E s \in S, k \in K : is_constant(t, s, k)
    \/ \E s \in S, k \in K, v \in Values : set(t, s, k, v)
    \/ \E s \in S, k \in K, v \in Values : set_constant(t, s, k, v)
    \/ \E s \in S, k \in K, v \in Values : set_unchecked(t, s, k, v)
    \/ map_read(t)
    \/ read_get(t)
    \/ try_fetch_get(t)
    \/ maybe_changed_since_get(t)
    \/ is_constant_get(t)
    \/ set_common_upgradable_read(t)
    \/ set_common_promote(t)
    \/ increment_revision(t)
    \/ set_common_insert(t)
    \/ set_unchecked_insert(t)

\* every thread, every operation, one storage and one key: readers and
\* writers of one lock
Next == (\E t \in Threads : Step(t, {"s1"}, {"a"})) /\ UNCHANGED <<pure, stored>>

Spec == Init /\ [][Next]_vars

\* the steps of the operation thread t has begun: lock acquisitions and what
\* follows them
Progress(t) ==
    \/ map_read(t)
    \/ read_get(t)
    \/ try_fetch_get(t)
    \/ maybe_changed_since_get(t)
    \/ is_constant_get(t)
    \/ set_common_upgradable_read(t)
    \/ set_common_promote(t)
    \/ increment_revision(t)
    \/ set_common_insert(t)
    \/ set_unchecked_insert(t)

\* a fair scheduler and a fair lock: a thread whose next step is possible
\* again and again takes it
SpecFair == Spec /\ \A t \in Threads : SF_vars(Progress(t) /\ UNCHANGED <<pure, stored>>)

\* one thread, one storage, every key: the contract of each operation
NextSeq == Step("t1", {"s1"}, Keys) /\ UNCHANGED <<pure, stored>>

SpecSeq == Init /\ [][NextSeq]_vars

\* every thread, every storage that shares the runtime, one key: the
\* writers against one another and against a reader
ConcValues == {DefaultValue, 1}

StepConc(t) ==
    \/ \E s \in Storages : is_constant(t, s, "a")
    \/ \E s \in Storages, v \in ConcValues : set(t, s, "a", v)
    \/ \E s \in Storages, v \in ConcValues : set_constant(t, s, "a", v)
    \/ \E s \in Storages, v \in ConcValues : set_unchecked(t, s, "a", v)
    \/ map_read(t)
    \/ is_constant_get(t)
    \/ set_common_upgradable_read(t)
    \/ set_common_promote(t)
    \/ increment_revision(t)
    \/ set_common_insert(t)
    \/ set_unchecked_insert(t)

NextConc == (\E t \in Threads : StepConc(t)) /\ UNCHANGED <<pure, stored>>

SpecConc == Init /\ [][NextConc]_vars

\* one thread, one storage, every key: inputs written and then read by a
\* derived computation
StepDerived ==
    \/ \E k \in Keys, v \in Values : set("t1", "s1", k, v)
    \/ \E k \in Keys, v \in Values : set_constant("t1", "s1", k, v)
    \/ \E k \in Keys, v \in Values : set_unchecked("t1", "s1", k, v)
    \/ \E k \in Keys : try_fetch("t1", "s1", k)
    \/ constants_add("t1", "s1")
    \/ map_read("t1")
    \/ try_fetch_get("t1")
    \/ constants_add_read("t1")
    \/ constants_add_get("t1")
    \/ set_common_upgradable_read("t1")
    \/ set_common_promote("t1")
    \/ increment_revision("t1")
    \/ set_common_insert("t1")
    \/ set_unchecked_insert("t1")

NextDerived == StepDerived /\ UNCHANGED <<pure, stored>>

SpecDerived == Init /\ [][NextDerived]_vars

\* the queries of the two threads on one storage against writers of both
\* storages, with the history of which results are still current
QueryKinds == {"read", "is_constant", "maybe_changed_since"}

StepPure(t) ==
    \/ read(t, "s1", "a")
    \/ \E r \in Revisions : maybe_changed_since(t, "s1", r, "a")
    \/ is_constant(t, "s1", "a")
    \/ \E s \in Storages, v \in ConcValues : set(t, s, "a", v)
    \/ \E s \in Storages, v \in ConcValues : set_constant(t, s, "a", v)
    \/ map_read(t)
    \/ read_get(t)
    \/ maybe_changed_since_get(t)
    \/ is_constant_get(t)
    \/ set_common_upgradable_read(t)
    \/ set_common_promote(t)
    \/ increment_revision(t)
    \/ set_common_insert(t)

\* pure[t] turns true when a query of t returns, false when t calls again
\* or the map its query read is written
StillPure ==
    pure' = [t \in Threads |->
               IF pc[t] = "get" /\ pc'[t] = "done" /\ op[t].kind \in QueryKinds THEN TRUE
               ELSE IF pc'[t] # "done" THEN FALSE
               ELSE IF map'[op[t].storage] # map[op[t].storage] THEN FALSE
               ELSE pure[t]]

NextPure == (\E t \in Threads : StepPure(t)) /\ StillPure /\ UNCHANGED stored

SpecPure == Init /\ [][NextPure]_vars

\* ------------------------------------------------------------ properties
Present(s, k) == k \in DOMAIN map[s]
StoredConstant(s, k) == Present(s, k) /\ map[s][k].changed_at.tag = "Constant"
StoredRevision(s, k) == IF Present(s, k) THEN map[s][k].changed_at.rev ELSE ZERO

\* the calls of the test set_after_constant_same_value: set or set_constant
\* of the stored value on a key that is constant. The call mints no revision,
\* so it is made at any revision.
set_after_constant_same_value(t, s, k) ==
    /\ Contains(map[s], k)
    /\ ChangedAt_is_constant(map[s][k].changed_at)
    /\ \E kind \in SetKinds : Begin(t, Op(kind, s, k, map[s][k].value, 0), "set_common")

\* set, set_constant and is_constant alone: no set_unchecked
StepFrozen(t) ==
    \/ \E k \in Keys : is_constant(t, "s1", k)
    \/ \E k \in Keys : set_after_constant_same_value(t, "s1", k)
    \/ \E k \in Keys, v \in Values : set(t, "s1", k, v)
    \/ \E k \in Keys, v \in Values : set_constant(t, "s1", k, v)
    \/ map_read(t)
    \/ is_constant_get(t)
    \/ set_common_upgradable_read(t)
    \/ set_common_promote(t)
    \/ increment_revision(t)
    \/ set_common_insert(t)

NextFrozen == (\E t \in Threads : StepFrozen(t)) /\ UNCHANGED <<pure, stored>>

SpecFrozen == Init /\ [][NextFrozen]_vars

\* readers and writers of one entry, with the history of what was stored
StepTorn(t) ==
    \/ read(t, "s1", "a")
    \/ try_fetch(t, "s1", "a")
    \/ \E v \in ConcValues : set(t, "s1", "a", v)
    \/ \E v \in ConcValues : set_constant(t, "s1", "a", v)
    \/ set_unchecked(t, "s1", "a", 1)
    \/ map_read(t)
    \/ read_get(t)
    \/ try_fetch_get(t)
    \/ set_common_upgradable_read(t)
    \/ set_common_promote(t)
    \/ increment_revision(t)
    \/ set_common_insert(t)
    \/ set_unchecked_insert(t)

\* every write adds the entry it leaves to the history of its key
Record ==
    stored' = [s \in Storages |-> [k \in Keys |->
                 IF k \in DOMAIN map'[s] /\ map'[s] # map[s]
                    THEN stored[s][k] \cup {map'[s][k]}
                    ELSE stored[s][k]]]

NextTorn == (\E t \in Threads : StepTorn(t)) /\ Record /\ UNCHANGED pure

SpecTorn == Init /\ [][NextTorn]_vars

\* thread t takes the step that leaves label l
Leaves(t, l) == pc[t] = l /\ pc'[t] # l

\* C1: when set_common meets a key that holds a Constant stamp and a value
\* other than the one written, the call takes the value-change path, the
\* key's entry stays as it is at every step until the call ends, and the
\* call ends in the panic of the assert!, never in a normal return.
C1_Violates(t) ==
    /\ op[t].kind \in SetKinds
    /\ StoredConstant(op[t].storage, op[t].key)
    /\ map[op[t].storage][op[t].key].value # op[t].value

C1_ConstantWriteFails ==
    [][\A t \in Threads :
         /\ (Leaves(t, "set_common") /\ C1_Violates(t)) => pc'[t] = "increment"
         /\ (pc[t] \in {"increment", "upgrade"} /\ C1_Violates(t)) =>
               /\ map'[op[t].storage] = map[op[t].storage]
               /\ \/ pc'[t] \in {"increment", "upgrade"}
                  \/ pc'[t] = "done" /\ ret'[t] = Panic]_vars

C1_Witness ==
    \E t \in Threads :
        /\ pc[t] = "done" /\ ret[t] = Panic /\ op[t].kind = "set"
        /\ StoredConstant(op[t].storage, op[t].key)
        /\ map[op[t].storage][op[t].key].value # op[t].value

\* C2: set on a key whose stored value equals the written one, and
\* set_constant on a key that holds the written value under a Constant
\* stamp, return normally in the step that examines the map, and that step
\* changes neither the map nor the revision counter.
C2_SameValue(t) ==
    /\ op[t].kind \in SetKinds
    /\ Present(op[t].storage, op[t].key)
    /\ map[op[t].storage][op[t].key].value = op[t].value
    /\ op[t].kind = "set" \/ StoredConstant(op[t].storage, op[t].key)

C2_SameValueNoOp ==
    [][\A t \in Threads :
         (Leaves(t, "set_common") /\ C2_SameValue(t)) =>
             /\ pc'[t] = "done"
             /\ ret'[t] = Unit
             /\ map' = map
             /\ revision' = revision]_vars

C2_Witness ==
    \E t \in Threads :
        /\ pc[t] = "done" /\ branch[t] = "unchanged" /\ ret[t] = Unit
        /\ op[t].kind = "set"
        /\ StoredConstant(op[t].storage, op[t].key)

\* C3: set_constant on a present, non-constant key that holds the written
\* value mints nothing and rewrites only the key's stamp, to
\* Constant(current revision); value, other keys, other storages and the
\* revision counter stay.
C3_Promotion(t) ==
    /\ op[t].kind = "set_constant"
    /\ Present(op[t].storage, op[t].key)
    /\ map[op[t].storage][op[t].key].value = op[t].value
    /\ ~StoredConstant(op[t].storage, op[t].key)

C3_PromotionOnlyRetags ==
    [][\A t \in Threads :
         /\ (Leaves(t, "set_common") /\ C3_Promotion(t)) =>
               /\ pc'[t] = "promote"
               /\ map' = map
               /\ revision' = revision
         /\ Leaves(t, "promote") =>
               /\ C3_Promotion(t)
               /\ pc'[t] = "done"
               /\ ret'[t] = Unit
               /\ revision' = revision
               /\ map' = [map EXCEPT ![op[t].storage][op[t].key] =
                            [value |-> @.value, changed_at |-> Constant(revision)]]]_vars

C3_Witness ==
    \E t \in Threads :
        /\ pc[t] = "done" /\ branch[t] = "promote" /\ ret[t] = Unit
        /\ map[op[t].storage][op[t].key] = StampedValue(op[t].value, Constant(revision))
        /\ revision > ZERO

\* C4: set_constant on a key that is absent, or non-constant with another
\* value, takes the value-change path: one increment_revision, which yields
\* n = old counter + 1, and then the key holds the written value stamped
\* Constant(n); no other step of the call moves the counter.
C4_Change(t) ==
    /\ op[t].kind = "set_constant"
    /\ \/ ~Present(op[t].storage, op[t].key)
       \/ /\ ~StoredConstant(op[t].storage, op[t].key)
          /\ map[op[t].storage][op[t].key].value # op[t].value

C4_ConstantWithChange ==
    [][\A t \in Threads :
         /\ (Leaves(t, "set_common") /\ C4_Change(t)) =>
               /\ pc'[t] = "increment"
               /\ revision' = revision
               /\ map' = map
         /\ (Leaves(t, "increment") /\ C4_Change(t)) =>
               /\ pc'[t] = "upgrade"
               /\ revision' = revision + 1
               /\ next_revision'[t] = revision + 1
               /\ map' = map
         /\ (Leaves(t, "upgrade") /\ C4_Change(t)) =>
               /\ pc'[t] = "done"
               /\ ret'[t] = Unit
               /\ revision' = revision
               /\ map'[op[t].storage][op[t].key] =
                     [value |-> op[t].value, changed_at |-> Constant(next_revision[t])]]_vars

C4_Witness ==
    \E t \in Threads :
        /\ pc[t] = "done" /\ branch[t] = "change" /\ ret[t] = Unit
        /\ op[t].kind = "set_constant"
        /\ map[op[t].storage][op[t].key] = StampedValue(op[t].value, Constant(revision))
        /\ revision > 1

\* C5: from one state to the next, no key loses its entry and the revision
\* in a key's stored stamp (ZERO while the key is absent) does not decrease.
C5_KeyRevisionMonotonic ==
    [][\A s \in Storages, k \in Keys :
         /\ Present(s, k) => Present(s, k)'
         /\ StoredRevision(s, k)' >= StoredRevision(s, k)]_vars

\* both threads have changed the value of a key, each storage holds a
\* stamp, and one of the stamps is older than the latest revision
C5_Witness ==
    /\ \A t \in Threads : pc[t] = "done" /\ branch[t] = "change" /\ ret[t] = Unit
    /\ \A s \in Storages : Present(s, "a") /\ StoredRevision(s, "a") >= 1
    /\ \E s \in Storages : StoredRevision(s, "a") < revision

\* C6: set / set_constant on a key that is absent (whatever the value
\* written, the default included) or that holds another value under a
\* non-constant stamp takes the value-change path; the revision it mints is
\* greater than the counter, which never decreases, and the stamp it stores
\* carries the revision it minted.
C6_RealChange(t) ==
    /\ op[t].kind \in SetKinds
    /\ \/ ~Present(op[t].storage, op[t].key)
       \/ /\ ~StoredConstant(op[t].storage, op[t].key)
          /\ map[op[t].storage][op[t].key].value # op[t].value

C6_ChangeMintsGreaterRevision ==
    [][/\ revision' >= revision
       /\ \A t \in Threads :
            /\ (Leaves(t, "set_common") /\ C6_RealChange(t)) => pc'[t] = "increment"
            /\ Leaves(t, "increment") =>
                  /\ next_revision'[t] > revision
                  /\ revision' = next_revision'[t]
            /\ (pc[t] = "upgrade" /\ pc'[t] = "upgrade") =>
                  next_revision'[t] = next_revision[t]
            /\ (Leaves(t, "upgrade") /\ C6_RealChange(t)) =>
                  /\ ret'[t] = Unit
                  /\ map'[op[t].storage][op[t].key].value = op[t].value
                  /\ map'[op[t].storage][op[t].key].changed_at.rev = next_revision[t]]_vars

\* a real change whose minted revision is no longer the latest when it is
\* stored
C6_Witness ==
    \E t \in Threads :
        /\ pc[t] = "done" /\ branch[t] = "change" /\ ret[t] = Unit
        /\ map[op[t].storage][op[t].key].value = op[t].value
        /\ StoredRevision(op[t].storage, op[t].key) >= 1
        /\ StoredRevision(op[t].storage, op[t].key) < revision

\* C7: a key that holds a Constant stamp holds the same value in the next
\* state, whichever write operation takes the step.
C7_ConstantValueFrozen ==
    [][\A s \in Storages, k \in Keys :
         StoredConstant(s, k) =>
             /\ Present(s, k)'
             /\ map'[s][k].value = map[s][k].value]_vars

\* C8: on an absent key, read returns (default, Revision(ZERO)), try_fetch
\* returns the default and reports Revision(ZERO), is_constant returns
\* false, maybe_changed_since returns false for every revision; neither
\* taking the shared lock nor the lookup changes the map.
C8_AbsentKeyReadsDefault ==
    [][\A t \in Threads :
         /\ Leaves(t, "map_read") => map' = map
         /\ (Leaves(t, "get") /\ ~Present(op[t].storage, op[t].key)) =>
               /\ map' = map
               /\ revision' = revision
               /\ pc'[t] = "done"
               /\ op[t].kind = "read" =>
                     ret'[t] = Ret("stamped", DefaultValue, Revision(ZERO), FALSE)
               /\ op[t].kind = "try_fetch" =>
                     /\ ret'[t].tag = "value"
                     /\ ret'[t].value = DefaultValue
                     /\ reported'[t] = <<Revision(ZERO)>>
               /\ op[t].kind = "is_constant" =>
                     ret'[t].tag = "bool" /\ ret'[t].flag = FALSE
               /\ op[t].kind = "maybe_changed_since" =>
                     ret'[t].tag = "bool" /\ ret'[t].flag = FALSE]_vars

\* a read of an absent key, made after revisions were minted
C8_Witness ==
    \E t \in Threads :
        /\ pc[t] = "done" /\ op[t].kind = "read"
        /\ ~Present(op[t].storage, op[t].key)
        /\ ret[t] = Ret("stamped", DefaultValue, Revision(ZERO), FALSE)
        /\ revision > ZERO

\* C9: maybe_changed_since(r, key) returns whether the revision of the
\* key's stored stamp, ZERO when the key is absent, is greater than r,
\* whatever the tag of the stamp.
C9_MaybeChangedSince ==
    [][\A t \in Threads :
         (Leaves(t, "get") /\ op[t].kind = "maybe_changed_since") =>
             /\ ret'[t].tag = "bool"
             /\ ret'[t].flag = (StoredRevision(op[t].storage, op[t].key) > op[t].revision)]_vars

\* maybe_changed_since has answered true on a Constant stamp
C9_Witness ==
    \E t \in Threads :
        /\ pc[t] = "done" /\ op[t].kind = "maybe_changed_since"
        /\ ret[t].flag = TRUE
        /\ StoredConstant(op[t].storage, op[t].key)
        /\ StoredRevision(op[t].storage, op[t].key) > op[t].revision

\* C10: the write of set_unchecked stores the value stamped
\* Revision(counter at the write), leaves the counter, every other key and
\* every other storage as they are, and the stamp it stores has not changed
\* since any revision from the counter on.
C10_SetUncheckedStampsCurrent ==
    [][\A t \in Threads :
         Leaves(t, "map_write") =>
             /\ pc'[t] = "done"
             /\ ret'[t] = Unit
             /\ revision' = revision
             /\ map'[op[t].storage][op[t].key] =
                   [value |-> op[t].value, changed_at |-> Revision(revision)]
             /\ \A s \in Storages, k \in Keys :
                   (s # op[t].storage \/ k # op[t].key) =>
                       /\ Present(s, k)' = Present(s, k)
                       /\ Present(s, k) => map'[s][k] = map[s][k]
             /\ \A r \in Revisions :
                   r >= revision =>
                       ~changed_since(map'[op[t].storage][op[t].key].changed_at, r)]_vars

\* set_unchecked has overwritten a key beside another present key, after
\* revisions were minted
C10_Witness ==
    \E t \in Threads :
        /\ pc[t] = "done" /\ op[t].kind = "set_unchecked"
        /\ map[op[t].storage][op[t].key] = StampedValue(op[t].value, Revision(revision))
        /\ revision > ZERO
        /\ \E k \in Keys : k # op[t].key /\ Present(op[t].storage, k)

\* C11: a fetch (try_fetch, or each of the two fetches of constants_add)
\* returns Ok with the value stored for the key (the default when absent),
\* appends exactly one report, the stamp stored with that value
\* (Revision(ZERO) when absent), and changes neither map nor counter; when
\* constants_add ends, its two reports are all Constant exactly when both
\* keys it read hold a Constant stamp.
C11_StoredValue(s, k) == IF Present(s, k) THEN map[s][k].value ELSE DefaultValue
C11_StoredStamp(s, k) == IF Present(s, k) THEN map[s][k].changed_at ELSE Revision(ZERO)
C11_AllConstant(rs) == \A i \in 1..Len(rs) : rs[i].tag = "Constant"

C11_FetchReportsStoredStamp ==
    [][\A t \in Threads :
         /\ (Leaves(t, "get") /\ op[t].kind = "try_fetch") =>
               /\ pc'[t] = "done"
               /\ ret'[t].tag = "value"
               /\ ret'[t].value = C11_StoredValue(op[t].storage, op[t].key)
               /\ reported[t] = <<>>
               /\ reported'[t] = <<C11_StoredStamp(op[t].storage, op[t].key)>>
               /\ map' = map
               /\ revision' = revision
         /\ (pc[t] = "add_get" /\ pc'[t] # "add_get") =>
               /\ reported'[t] =
                     Append(reported[t], C11_StoredStamp(op[t].storage, op[t].key))
               /\ map' = map
               /\ revision' = revision
               /\ pc'[t] = "done" =>
                     /\ ret'[t].tag = "value"
                     /\ ret'[t].value = C11_StoredValue(op[t].storage, "a")
                                          + C11_StoredValue(op[t].storage, "b")
                     /\ Len(reported'[t]) = 2
                     /\ C11_AllConstant(reported'[t]) <=>
                           (StoredConstant(op[t].storage, "a")
                              /\ StoredConstant(op[t].storage, "b"))]_vars

\* constants_add has read a constant key and a non-constant one
C11_Witness ==
    /\ pc["t1"] = "done" /\ op["t1"].kind = "constants_add"
    /\ Len(reported["t1"]) = 2
    /\ reported["t1"][1].tag = "Constant"
    /\ reported["t1"][2].tag = "Revision"
    /\ StoredConstant("s1", "a") /\ Present("s1", "b")
    /\ ret["t1"].value = map["s1"]["a"].value + map["s1"]["b"].value

\* C12: the steps of read, is_constant and maybe_changed_since change
\* neither the map nor the revision counter, and two of these calls with the
\* same arguments, with no write to the map between the two, have returned
\* the same result.
C12_QueriesArePure ==
    [][/\ \A t \in Threads :
            (pc[t] \in {"map_read", "get"} /\ pc'[t] # pc[t] /\ op[t].kind \in QueryKinds) =>
                map' = map /\ revision' = revision
       /\ \A t \in Threads, u \in Threads :
            (pure'[t] /\ pure'[u] /\ op'[t] = op'[u]) => ret'[t] = ret'[u]]_vars

\* two threads hold current results of the same query of a key written
\* under a minted revision
C12_Witness ==
    /\ \A t \in Threads : pure[t] /\ pc[t] = "done"
    /\ op["t1"] = op["t2"]
    /\ op["t1"].kind = "read"
    /\ ret["t1"] = ret["t2"]
    /\ ret["t1"].changed_at.rev > ZERO

\* ------------------------------------------------------------------ C13
\* the writers of set_common that are between their check of the old value
\* and their map write on storage s
C13_InSection(s) ==
    {t \in Threads : pc[t] \in {"promote", "increment", "upgrade"} /\ op[t].storage = s}

\* C13: writers of one storage are serialized and write in the order of
\* their revisions: at most one writer is between its check and its write,
\* while it is there no other thread's step changes that storage's map, and
\* a value-changing write stores the revision it minted, which is strictly
\* greater than the revision the key held.
C13_WritersSerialized ==
    [][/\ \A s \in Storages : Cardinality(C13_InSection(s)') <= 1
       /\ \A s \in Storages, t \in Threads :
            (t \in C13_InSection(s) /\ map'[s] # map[s]) => pc'[t] = "done"
       /\ \A t \in Threads :
            (Leaves(t, "upgrade") /\ ret'[t] = Unit) =>
                LET s == op[t].storage
                    k == op[t].key
                IN /\ StoredRevision(s, k)' = next_revision[t]
                   /\ Present(s, k) => StoredRevision(s, k) < StoredRevision(s, k)'
                   /\ \A j \in Keys \ {k} :
                        /\ Present(s, j)' = Present(s, j)
                        /\ Present(s, j) => map'[s][j] = map[s][j]]_vars

\* both threads changed key "a" of storage s1, one after the other, and the
\* key holds the later of the two revisions
C13_Witness ==
    /\ \A t \in Threads :
         /\ pc[t] = "done" /\ branch[t] = "change" /\ ret[t] = Unit
         /\ op[t].storage = "s1" /\ op[t].key = "a"
    /\ op["t1"].value # op["t2"].value
    /\ StoredRevision("s1", "a") = 2
    /\ revision = 2

\* ------------------------------------------------------------------ C14
\* C14: at the map write of a value-changing set or set_constant the stamped
\* revision equals current_revision() at that moment, for every interleaving,
\* writers on the other storage of the same runtime included.
C14_StampIsCurrentAtWrite ==
    [][\A t \in Threads :
         (Leaves(t, "upgrade") /\ ret'[t] = Unit) =>
             StoredRevision(op[t].storage, op[t].key)' = current_revision]_vars

\* ------------------------------------------------------------------ C15
\* the next step of a reader u: its acquisition of shared access or its lookup
C15_ReaderStep(u) ==
    \/ map_read(u)
    \/ read_get(u)
    \/ try_fetch_get(u)
    \/ maybe_changed_since_get(u)
    \/ is_constant_get(u)

\* writer t holds upgradable access and has not yet obtained exclusive access
C15_OnlyUpgradable(t) ==
    pc[t] \in {"increment", "upgrade"} /\ upgradable[op[t].storage] = t

C16_Default == StampedValue(DefaultValue, Revision(ZERO))

\* C16: reads are not torn. What read returns, and the value try_fetch returns
\* with the stamp it reports, is the default or an entry one write left in
\* that key; the map of a storage does not change while a thread holds shared
\* access to it, and it changes only in a step of a thread that is alone on
\* the lock: no shared holder and no upgradable holder but itself.
C16_ReadsNotTorn ==
    [][/\ \A t \in Threads :
            (Leaves(t, "get") /\ op[t].kind \in {"read", "try_fetch"}) =>
                LET got == IF op[t].kind = "read"
                              THEN StampedValue(ret'[t].value, ret'[t].changed_at)
                              ELSE StampedValue(ret'[t].value, reported'[t][Len(reported'[t])])
                IN got \in stored[op[t].storage][op[t].key] \cup {C16_Default}
       /\ \A s \in Storages :
            map'[s] # map[s] =>
                /\ readers[s] = {}
                /\ \E t \in Threads :
                     /\ op[t].storage = s /\ pc[t] # pc'[t]
                     /\ upgradable[s] \in {NoThread, t}]_vars

\* t1 read the entry (1, Constant(2)) that t2's set_constant left in the key
\* after an earlier entry with another value: both entries are in the history
C16_Witness ==
    /\ pc["t1"] = "done" /\ op["t1"].kind = "read"
    /\ ret["t1"].value = 1 /\ ret["t1"].changed_at = Constant(2)
    /\ op["t2"].kind = "set_constant"
    /\ Cardinality(stored["s1"]["a"]) >= 2
    /\ StampedValue(1, Constant(2)) \in stored["s1"]["a"]

\* ------------------------------------------------------------------ C17
\* thread t has begun an operation that has not completed
C17_Started(t) == pc[t] \notin {"idle", "done"}

\* C17: no deadlock and completion. In every state where an operation has
\* begun some thread can take a step of its operation, and under a fair
\* scheduler every operation begun completes: it returns or raises the
\* error of the constant violation.
C17_Completion ==
    /\ []((\E t \in Threads : C17_Started(t)) =>
             \E t \in Threads : C17_Started(t) /\ ENABLED Progress(t))
    /\ \A t \in Threads : C17_Started(t) ~> (pc[t] = "done" /\ ret[t] # NoRet)

\* t1's set ended in the error of the constant violation and t2's set_constant
\* on the same storage, begun meanwhile, completed after it
C17_Witness ==
    /\ pc["t1"] = "done" /\ ret["t1"] = Panic
    /\ pc["t2"] = "done" /\ op["t2"].kind = "set_constant" /\ branch["t2"] = "unchanged"
    /\ revision = 2

\* ------------------------------------------------------------------ C18
\* C18: in every state the revision of every stored stamp is at most the
\* current revision of the runtime, so that maybe_changed_since asked with the
\* current revision is false for every key.
C18_StoredRevisionAtMostCurrent ==
    \A s \in Storages, k \in Keys :
        /\ StoredRevision(s, k) <= current_revision
        /\ ~changed_since(StoredChangedAt(map[s], k), current_revision)

\* the two storages hold stamps of different revisions, the later one current
C18_Witness ==
    /\ Present("s1", "a") /\ Present("s2", "a")
    /\ StoredRevision("s1", "a") = 1
    /\ StoredConstant("s2", "a") /\ StoredRevision("s2", "a") = current_revision
    /\ current_revision = 2
    /\ \A t \in Threads : pc[t] = "done"

\* ------------------------------------------------------------------ C19
\* thread t takes a step of a set or set_constant call that precedes its write
C19_BeforeWrite(t) ==
    /\ pc'[t] # pc[t]
    /\ pc'[t] \in {"set_common", "increment", "upgrade"}

\* C19: a set or set_constant that ends in the error of the constant
\* violation leaves the map as it was: no step of the call before the write
\* changes the map, the failing step changes neither map nor counter and the
\* key keeps its value and its Constant stamp; the counter was advanced by
\* the call before, the revision it minted is later than the key's stamp.
C19_PanicLeavesMap ==
    [][\A t \in Threads :
         /\ C19_BeforeWrite(t) =>
               /\ map' = map
               /\ revision' = IF pc[t] = "increment" THEN revision + 1 ELSE revision
         /\ (Leaves(t, "upgrade") /\ ret'[t] = Panic) =>
               LET s == op[t].storage
                   k == op[t].key
               IN /\ map' = map /\ revision' = revision
                  /\ StoredConstant(s, k) /\ map[s][k].value # op[t].value
                  /\ next_revision[t] > StoredRevision(s, k)
                  /\ current_revision >= next_revision[t]]_vars

\* set('b', 1) failed on the constant key b, stamped Constant(1) with value 0:
\* the entry is as it was, key a is absent as before and the counter is at 2
C19_Witness ==
    /\ pc["t1"] = "done" /\ ret["t1"] = Panic
    /\ op["t1"] = Op("set", "s1", "b", 1, 0)
    /\ map["s1"] = [k \in {"b"} |-> StampedValue(0, Constant(1))]
    /\ revision = 2

\* ------------------------------------------------------------------ C20
\* C20: with set and set_constant alone a Constant stamp is frozen. A key that
\* is_constant reported constant is constant in every later state, and no
\* step changes the entry of a constant key: its value, its Constant tag and
\* the revision of its stamp stay, also when set_constant is repeated with
\* the same value after later revisions were minted.
C20_ConstantFrozen ==
    /\ [](\A t \in Threads :
            (pc[t] = "done" /\ op[t].kind = "is_constant" /\ ret[t].flag) =>
                StoredConstant(op[t].storage, op[t].key))
    /\ [][\A s \in Storages, k \in Keys :
            StoredConstant(s, k) =>
                /\ StoredConstant(s, k)'
                /\ map'[s][k] = map[s][k]]_vars

\* key a is constant since revision 1, revision 2 was minted for key b, and
\* set_constant('a', 1) was repeated: the stamp of a is still Constant(1)
C20_Witness ==
    /\ Present("s1", "a") /\ map["s1"]["a"] = StampedValue(1, Constant(1))
    /\ Present("s1", "b") /\ StoredRevision("s1", "b") = 2
    /\ pc["t1"] = "done" /\ op["t1"] = Op("set_constant", "s1", "a", 1, 0)
    /\ branch["t1"] = "unchanged"
    /\ pc["t2"] = "done" /\ op["t2"].kind = "is_constant" /\ op["t2"].key = "a" /\ ret["t2"].flag
====
